---------------------------- MODULE Spec2Model ----------------------------
(***************************************************************************)
(* Model of python/MooseDocs/extensions/civet.py: the CivetExtension       *)
(* (result store, init(), page generation) and the two Materialize         *)
(* renderers RenderCivetTestBadges and RenderCivetTestReport.              *)
(*                                                                         *)
(* A Python dict is an ordered mapping: it is modelled as a sequence of    *)
(* entries [k |-> key, v |-> value] with pairwise distinct keys, in        *)
(* insertion order.  An optional value (x or None) is modelled as a        *)
(* sequence of length at most one: None == <<>>, a present x is <<x>>.     *)
(***************************************************************************)
EXTENDS Integers, Sequences, FiniteSets, TLC

VARIABLES
    config,               \* the extension's options (self.get / self.update)
    database,             \* self.__database
    test_result_numbers,  \* self.__test_result_numbers
    has_test_reports,     \* self.__has_test_reports
    rootExists,           \* translator.findPage(report_root) finds a page
    rootFound,            \* what findPage returned in the last init() (FALSE if not asked)
    pagesAdded,           \* translator.addPage calls of the last init()
    calls,                \* mooseutils calls of the last init(), in order
    fetched,              \* what get_civet_results returned, per category
    gitCheck,             \* <<git_is_branch, git_is_config>> of the last init()
    lastOp,               \* the operation that ran last
    token,                \* the token handed to the last render
    badgesOut,            \* children of the moose-civet-badges div
    failMark,             \* 'moose-civet-fail' on parent.parent
    reportOut,            \* the tables the report render has emitted
    renderError,          \* the last render ended with an exception
    inits                 \* number of init() calls so far

vars == <<config, database, test_result_numbers, has_test_reports, rootExists, rootFound,
          pagesAdded, calls, fetched, gitCheck, lastOp, token, badgesOut, failMark,
          reportOut, renderError, inits>>

-----------------------------------------------------------------------------
(* Bounds and input sets *)

MaxRemotes == 2
MaxTests == 2
MaxRecs == 2
MaxBuilds == 1
MaxInits == 2

None == <<>>
Some(x) == <<x>>

\* possible=['OK', 'FAIL', 'DIFF', 'TIMEOUT']
Possible == <<"OK", "FAIL", "DIFF", "TIMEOUT">>
Statuses == {Possible[i] : i \in 1..Len(Possible)}

\* str.lower() on the status vocabulary
Lower(s) ==
    CASE s = "OK" -> "ok"
      [] s = "FAIL" -> "fail"
      [] s = "DIFF" -> "diff"
      [] s = "TIMEOUT" -> "timeout"
      [] OTHER -> s

TestNames == {"t1", "t2"}
Prefixes == {None, Some("p")}
StoreKeys == {"t1", "t2", "p.t1"}
JobIds == {101, 102}

\* one result record per status; recipe and url differ between records
Records == {[status |-> "OK", recipe |-> "r1", url |-> "u1"],
            [status |-> "FAIL", recipe |-> "r2", url |-> "u1"],
            [status |-> "DIFF", recipe |-> "r1", url |-> "u2"],
            [status |-> "TIMEOUT", recipe |-> "r2", url |-> "u2"]}

-----------------------------------------------------------------------------
(* Ordered mappings (dict) *)

Keys(d) == {d[i].k : i \in 1..Len(d)}

HasKey(d, key) == \E i \in 1..Len(d) : d[i].k = key

Lookup(d, key) == d[CHOOSE i \in 1..Len(d) : d[i].k = key].v

\* dict.get(key, None)
Get(d, key) == IF HasKey(d, key) THEN Some(Lookup(d, key)) ELSE None

\* d[key] = value
SetItem(d, key, value) ==
    IF HasKey(d, key)
    THEN [i \in 1..Len(d) |-> IF d[i].k = key THEN [k |-> key, v |-> value] ELSE d[i]]
    ELSE Append(d, [k |-> key, v |-> value])

RECURSIVE UpdateFrom(_, _, _)
UpdateFrom(d, e, i) ==
    IF i > Len(e) THEN d ELSE UpdateFrom(SetItem(d, e[i].k, e[i].v), e, i + 1)

UpdateKeepOld(d, e) ==
    d \o SelectSeq(e, LAMBDA x : ~HasKey(d, x.k))

\* dict.update(e)
Update(d, e) == UpdateFrom(d, e, 1)


-----------------------------------------------------------------------------
(* CivetExtension: options *)

\* a remote category: {url, repo, download_test_results?, test_results_cache?}
Categories == {[download |-> None, cache |-> None],
               [download |-> Some(TRUE), cache |-> None],
               [download |-> Some(FALSE), cache |-> Some("cat_cache")]}

RemoteLists == UNION {[1..n -> Categories] : n \in 0..MaxRemotes}

\* defaultConfig(): the options init() reads
Configs == [remotes : RemoteLists,
            download_test_results : BOOLEAN,
            generate_test_reports : BOOLEAN,
            test_results_cache : {"home_cache"},
            test_reports_location : {"civet"}]

\* what git_civet_hashes may return
HashLists == {<<>>, <<"sha1">>}

EffectiveDownloadDefaultTrue(cfg, category) ==
    IF category.download # None THEN category.download[1] ELSE TRUE

\* category.get('download_test_results', self.get('download_test_results', True))
EffectiveDownload(cfg, category) ==
    IF category.download # None THEN category.download[1]
    ELSE cfg.download_test_results

LocalPathExtensionOnly(cfg, category) == cfg.test_results_cache

\* category.get('test_results_cache', self.get('test_results_cache'))
LocalPath(cfg, category) ==
    IF category.cache # None THEN category.cache[1]
    ELSE cfg.test_results_cache

BranchOrAuthorMatch(isBranch, isConfig) == isBranch \/ isConfig

\* mooseutils.git_is_branch(branch) and mooseutils.git_is_config('user.name', author)
BranchAuthorMatch(isBranch, isConfig) == isBranch /\ isConfig

-----------------------------------------------------------------------------
(* CivetExtension: accessors *)

\* self.__database.get(name, None)
results(name) == Get(database, name)

\* self.__test_result_numbers.get(test, None)
testBaseFileName(test) == Get(test_result_numbers, test)

hasTestReports == has_test_reports

-----------------------------------------------------------------------------
(* CivetExtension.init *)

\* the loop over self.get('remotes').items(): resp[i] is what get_civet_results
\* returns for category i and hs what git_civet_hashes returns
RECURSIVE CollectResults(_, _, _, _, _, _)
CollectResults(cfg, resp, hs, i, db, log) ==
    IF i > Len(cfg.remotes) THEN [db |-> db, log |-> log]
    ELSE LET category == cfg.remotes[i]
             dl == EffectiveDownload(cfg, category)
             hashes == IF dl THEN Some(hs) ELSE None
             local == LocalPath(cfg, category)
             log1 == IF dl
                     THEN Append(log, [fn |-> "git_civet_hashes", category |-> i,
                                       hashes |-> None, local |-> ""])
                     ELSE log
             log2 == Append(log1, [fn |-> "get_civet_results", category |-> i,
                                   hashes |-> hashes, local |-> local])
         IN  CollectResults(cfg, resp, hs, i + 1, Update(db, resp[i]), log2)

ResultNameStuck(count) == "result_" \o ToString(0)

\* 'result_{}'.format(count)
ResultName(count) == "result_" \o ToString(count)

\* the loop over self.__database.items() with its counter
RECURSIVE ResultPages(_, _, _, _, _)
ResultPages(report_root, db, count, numbers, pages) ==
    IF count >= Len(db) THEN [numbers |-> numbers, pages |-> pages]
    ELSE LET key == db[count + 1].k
             name == ResultName(count)
             fullname == report_root \o "/" \o name \o ".md"
         IN  ResultPages(report_root, db, count + 1,
                         SetItem(numbers, key, name),
                         Append(pages, [type |-> "Source", name |-> fullname,
                                        key |-> Some(key)]))

\* the body of 'if self.get('generate_test_reports', True):'
GeneratePages(report_root, db, numbers, found) ==
    LET dir == IF found THEN <<>>
               ELSE <<[type |-> "Directory", name |-> report_root, key |-> None]>>
        index == [type |-> "Source", name |-> report_root \o "/index.md", key |-> None]
    IN  ResultPages(report_root, db, 0, numbers, Append(dir, index))

\* everything after the fetch loop: the empty-database switch and the pages
Finish(isBranch, isConfig, resp, collected) ==
    LET db == collected.db
        generate == IF db = <<>> /\ config.generate_test_reports
                    THEN FALSE
                    ELSE config.generate_test_reports
        made == IF generate
                THEN GeneratePages(config.test_reports_location, db,
                                   test_result_numbers, rootExists)
                ELSE [numbers |-> test_result_numbers, pages |-> <<>>]
    IN  /\ database' = db
        /\ calls' = collected.log
        /\ fetched' = resp
        /\ gitCheck' = <<isBranch, isConfig>>
        /\ config' = [config EXCEPT !.generate_test_reports = generate]
        /\ has_test_reports' = (has_test_reports \/ generate)
        /\ test_result_numbers' = made.numbers
        /\ pagesAdded' = made.pages
        /\ rootExists' = (rootExists \/ generate)
        /\ rootFound' = (generate /\ rootExists)

\* init() of build number inits + 1; Returned is the set of values
\* get_civet_results may return.  init() reads nothing a render writes and
\* discards the page tree, so it is taken from the unrendered states only.  All categories use the default 'location',
\* so git_civet_hashes returns the same list h for each of them.
init(Returned, limit) ==
    /\ inits < limit
    /\ lastOp \in {"new", "init"}
    /\ inits' = inits + 1
    /\ \E isBranch \in BOOLEAN, isConfig \in BOOLEAN :
        IF BranchAuthorMatch(isBranch, isConfig)
        THEN \E resp \in [1..Len(config.remotes) -> Returned], h \in HashLists :
                Finish(isBranch, isConfig, resp,
                       CollectResults(config, resp, h, 1, <<>>, <<>>))
        ELSE Finish(isBranch, isConfig, <<>>, [db |-> <<>>, log |-> <<>>])
    /\ lastOp' = "init"
    \* a build starts with init(): the page trees of the build before are gone
    /\ token' = [prefix |-> None, tests |-> <<>>]
    /\ badgesOut' = <<>>
    /\ failMark' = FALSE
    /\ reportOut' = <<>>
    /\ renderError' = FALSE

-----------------------------------------------------------------------------
(* Tokens and the values get_civet_results may return *)

TestLists == UNION {[1..n -> TestNames] : n \in 0..MaxTests}

\* CivetTestBadges / CivetTestReport: prefix=None, tests=list()
Tokens == [prefix : Prefixes, tests : TestLists]

\* a job holds at least one record
RecSeqs == UNION {[1..n -> Records] : n \in 1..MaxRecs}

RECURSIVE TotalRecs(_, _)
TotalRecs(jobs, i) ==
    IF i > Len(jobs) THEN 0 ELSE Len(jobs[i].v) + TotalRecs(jobs, i + 1)

\* job id -> sequence of records, at most MaxRecs records in all
JobMaps ==
    {jobs \in UNION {[1..n -> [k : JobIds, v : RecSeqs]] : n \in 0..Cardinality(JobIds)} :
        /\ \A i, j \in 1..Len(jobs) : jobs[i].k = jobs[j].k => i = j
        /\ TotalRecs(jobs, 1) <= MaxRecs}

JobA == <<[k |-> 101, v |-> <<[status |-> "OK", recipe |-> "r1", url |-> "u1"]>>]>>
JobB == <<[k |-> 102, v |-> <<[status |-> "FAIL", recipe |-> "r2", url |-> "u1"]>>]>>

SimpleJobMaps == {JobA, JobB}

\* three stores with one-record values
Responses ==
    {<<>>,
     <<[k |-> "t1", v |-> JobA]>>,
     <<[k |-> "t2", v |-> JobB], [k |-> "t1", v |-> JobB]>>}

\* stores of one key with any job mapping, or of two keys with one-record values
RichResponses ==
    {<<>>}
    \cup {<<[k |-> "t1", v |-> jm]>> : jm \in JobMaps}
    \cup {d \in [1..2 -> [k : StoreKeys, v : SimpleJobMaps]] : d[1].k # d[2].k}

-----------------------------------------------------------------------------
(* RenderCivetTestBadges.createMaterialize *)

\* A render is given a parent in a tree that holds no rendered token yet: the
\* renders of a build read the extension and write only below their own parent,
\* so the model renders one token per tree.
FreshTree == lastOp \in {"new", "init"}

\* '{}.{}'.format(prefix, test) if (prefix is not None) else test
TName(prefix, test) == IF prefix # None THEN prefix[1] \o "." \o test ELSE test

\* counts[recipe.status] += 1 on a defaultdict(int)
Increment(counts, status) ==
    SetItem(counts, status,
            (IF HasKey(counts, status) THEN Lookup(counts, status) ELSE 0) + 1)

RECURSIVE CountRecipes(_, _, _)
CountRecipes(recipes, i, counts) ==
    IF i > Len(recipes) THEN counts
    ELSE CountRecipes(recipes, i + 1, Increment(counts, recipes[i].status))

RECURSIVE CountJobs(_, _, _)
CountJobs(jobs, i, counts) ==
    IF i > Len(jobs) THEN counts
    ELSE CountJobs(jobs, i + 1, CountRecipes(jobs[i].v, 1, counts))

CountsFirstJob(res) ==
    IF res # None /\ res[1] # <<>> THEN CountRecipes(res[1][1].v, 1, <<>>) ELSE <<>>

\* the counts of one test: 'if results:' skips None and the empty dict
Counts(res) ==
    IF res # None /\ res[1] # <<>> THEN CountJobs(res[1], 1, <<>>) ELSE <<>>

\* the <a> or <span> holding the badges of one test; the href is the report
\* page's path below the destination root
BadgeGroup(tname) ==
    LET counts == Counts(results(tname))
        base == testBaseFileName(tname)
        linked == hasTestReports /\ base # None
    IN  [tag |-> IF linked THEN "a" ELSE "span",
         href |-> IF linked
                  THEN Some(config.test_reports_location \o "/" \o base[1] \o ".html")
                  ELSE None,
         badges |-> [i \in 1..Len(counts) |->
                        [string |-> ToString(counts[i].v),
                         caption |-> counts[i].k,
                         status |-> Lower(counts[i].k)]]]

AnyFail(tk) ==
    \E i \in 1..Len(tk.tests) :
        HasKey(Counts(results(TName(tk.prefix, tk.tests[i]))), "FAIL")

\* some test of the token reaches "if 'OK' not in counts"
AnyNotOK(tk) ==
    \E i \in 1..Len(tk.tests) :
        ~HasKey(Counts(results(TName(tk.prefix, tk.tests[i]))), "OK")

BadgesCreateMaterialize ==
    \E tk \in Tokens :
        /\ FreshTree
        /\ token' = tk
        /\ badgesOut' = [i \in 1..Len(tk.tests) |->
                            BadgeGroup(TName(tk.prefix, tk.tests[i]))]
        /\ failMark' = AnyNotOK(tk)
        /\ reportOut' = <<>>
        /\ renderError' = FALSE
        /\ lastOp' = "badges"
        /\ UNCHANGED <<config, database, test_result_numbers, has_test_reports,
                       rootExists, rootFound, pagesAdded, calls, fetched, gitCheck, inits>>

-----------------------------------------------------------------------------
(* RenderCivetTestReport.createMaterialize *)

Cell(tag, string, status, href) ==
    [tag |-> tag, string |-> string, data_status |-> status, href |-> href]

HeaderRow == <<Cell("th", "Status", None, None), Cell("th", "Job", None, None),
               Cell("th", "Recipe", None, None)>>

\* one <tr>: status, job link, recipe
ReportRow(job, item) ==
    <<Cell("td", item.status, Some(Lower(item.status)), None),
      Cell("td", ToString(job), None, Some(item.url \o "/job/" \o ToString(job))),
      Cell("td", item.recipe, None, None)>>

RECURSIVE ReportRows(_, _, _)
ReportRows(jobs, i, rows) ==
    IF i > Len(jobs) THEN rows
    ELSE ReportRows(jobs, i + 1,
                    rows \o [n \in 1..Len(jobs[i].v) |-> ReportRow(jobs[i].k, jobs[i].v[n])])

\* the loop over token['tests']: results.items() raises when results is None,
\* after the table and its header row were added to the tree
RECURSIVE ReportTables(_, _, _)
ReportTables(tk, i, out) ==
    IF i > Len(tk.tests) THEN [out |-> out, error |-> FALSE]
    ELSE LET res == results(TName(tk.prefix, tk.tests[i]))
         IN  IF res = None
             THEN [out |-> Append(out, <<HeaderRow>>), error |-> TRUE]
             ELSE ReportTables(tk, i + 1,
                               Append(out, ReportRows(res[1], 1, <<HeaderRow>>)))

ReportCreateMaterialize ==
    \E tk \in Tokens :
        LET r == ReportTables(tk, 1, <<>>)
        IN  /\ FreshTree
            /\ token' = tk
            /\ reportOut' = r.out
            /\ renderError' = r.error
            /\ badgesOut' = <<>>
            /\ failMark' = FALSE
            /\ lastOp' = "report"
            /\ UNCHANGED <<config, database, test_result_numbers, has_test_reports,
                           rootExists, rootFound, pagesAdded, calls, fetched, gitCheck, inits>>

-----------------------------------------------------------------------------
(* Specifications *)

\* CivetExtension.__init__ and a token-free page tree
Fresh ==
    /\ database = <<>>
    /\ test_result_numbers = <<>>
    /\ has_test_reports = FALSE
    /\ rootFound = FALSE
    /\ pagesAdded = <<>>
    /\ calls = <<>>
    /\ fetched = <<>>
    /\ gitCheck = <<FALSE, FALSE>>
    /\ lastOp = "new"
    /\ token = [prefix |-> None, tests |-> <<>>]
    /\ badgesOut = <<>>
    /\ failMark = FALSE
    /\ reportOut = <<>>
    /\ renderError = FALSE
    /\ inits = 0

\* one remote category with the default options
Init ==
    /\ config \in {c \in Configs : /\ c.remotes = <<[download |-> None, cache |-> None]>>
                                   /\ c.download_test_results}
    /\ rootExists = FALSE
    /\ Fresh

InitRich == init(RichResponses, MaxBuilds)

Next == InitRich \/ BadgesCreateMaterialize \/ ReportCreateMaterialize

Spec == Init /\ [][Next]_vars

\* any configuration
InitAny ==
    /\ config \in Configs
    /\ rootExists \in BOOLEAN
    /\ Fresh

InitAnyConfig == init(Responses, MaxInits)

NextInit == InitAnyConfig

SpecInit == InitAny /\ [][NextInit]_vars

-----------------------------------------------------------------------------
(* Properties of the badge renderer *)

\* the names a token asks for, in order
Requested == [i \in 1..Len(token.tests) |-> TName(token.prefix, token.tests[i])]

\* the result records of a name: <<job, position>> pairs
RecordsOf(name) ==
    IF HasKey(database, name)
    THEN LET jobs == Lookup(database, name)
         IN  UNION {{<<i, n>> : n \in 1..Len(jobs[i].v)} : i \in 1..Len(jobs)}
    ELSE {}

RecordAt(name, p) == Lookup(database, name)[p[1]].v[p[2]]

StatusCount(name, status) ==
    Cardinality({p \in RecordsOf(name) : RecordAt(name, p).status = status})

NoOKRecord(name) == StatusCount(name, "OK") = 0

\* C1: after a badges render the fail mark is set exactly when some requested
\* name has no record with status OK; a name without store entry yields no
\* badge and sets the mark.
C1_FailMarkIffNoOK ==
    lastOp = "badges" =>
        /\ failMark <=> \E i \in 1..Len(Requested) : NoOKRecord(Requested[i])
        /\ \A i \in 1..Len(Requested) :
            ~HasKey(database, Requested[i]) =>
                badgesOut[i].badges = <<>> /\ failMark

\* C1 witness: every requested name has an OK record next to a FAIL record,
\* and the mark is not set
C1_Witness ==
    /\ lastOp = "badges"
    /\ Len(Requested) > 0
    /\ ~failMark
    /\ \E i \in 1..Len(Requested) : StatusCount(Requested[i], "FAIL") > 0

\* the number a badge label is the decimal form of
LabelValue(label, most) == CHOOSE n \in 0..most : ToString(n) = label

RECURSIVE LabelSum(_, _, _)
LabelSum(badges, i, most) ==
    IF i > Len(badges) THEN 0
    ELSE LabelValue(badges[i].string, most) + LabelSum(badges, i + 1, most)

\* C2: each requested name gets one badge group; the group holds exactly one
\* badge per status occurring among the name's records, labelled with the
\* number of records of that status over all jobs; the labels sum to the
\* number of records, and a name without store entry has no badge.
C2_BadgePerStatus ==
    lastOp = "badges" =>
        /\ Len(badgesOut) = Len(Requested)
        /\ \A i \in 1..Len(Requested) :
            LET name == Requested[i]
                badges == badgesOut[i].badges
                total == Cardinality(RecordsOf(name))
            IN  /\ \A s \in Statuses :
                    LET at == {b \in 1..Len(badges) : badges[b].caption = s}
                    IN  IF StatusCount(name, s) = 0 THEN at = {}
                        ELSE /\ Cardinality(at) = 1
                             /\ \A b \in at :
                                 badges[b].string = ToString(StatusCount(name, s))
                /\ \A b \in 1..Len(badges) : badges[b].caption \in Statuses
                /\ LabelSum(badges, 1, total) = total
                /\ ~HasKey(database, name) => badges = <<>>

\* C2 witness: a name with two jobs whose records share a status, counted as 2
C2_Witness ==
    /\ lastOp = "badges"
    /\ \E i \in 1..Len(Requested) :
        /\ HasKey(database, Requested[i])
        /\ Len(Lookup(database, Requested[i])) = 2
        /\ \E b \in 1..Len(badgesOut[i].badges) : badgesOut[i].badges[b].string = "2"

-----------------------------------------------------------------------------
(* Properties of the report renderer *)

\* the table the report of a stored name consists of: the header, then one
\* row per record in job order and record order
ExpectedTable(name) ==
    LET jobs == Lookup(database, name)
        before(i) == Cardinality({p \in RecordsOf(name) : p[1] < i})
        place(p) == before(p[1]) + p[2]
        row(p) ==
            LET item == RecordAt(name, p)
                job == jobs[p[1]].k
            IN  <<[tag |-> "td", string |-> item.status,
                   data_status |-> Some(Lower(item.status)), href |-> None],
                  [tag |-> "td", string |-> ToString(job), data_status |-> None,
                   href |-> Some(item.url \o "/job/" \o ToString(job))],
                  [tag |-> "td", string |-> item.recipe, data_status |-> None,
                   href |-> None]>>
    IN  <<HeaderRow>> \o
        [r \in 1..Cardinality(RecordsOf(name)) |->
            row(CHOOSE p \in RecordsOf(name) : place(p) = r)]

\* C8: every requested name that is in the store gets its table: the header
\* row and one row per record, in job order then record order.
C8_ReportTablePerName ==
    lastOp = "report" =>
        \A i \in 1..Len(Requested) :
            HasKey(database, Requested[i]) =>
                /\ i <= Len(reportOut)
                /\ reportOut[i] = ExpectedTable(Requested[i])

\* C10: a render ends without error; a name without store entry gets an
\* empty badge group, or a table of the header row alone.
C10_RenderNeverFails ==
    /\ lastOp \in {"badges", "report"} => ~renderError
    /\ lastOp = "badges" =>
        \A i \in 1..Len(Requested) :
            ~HasKey(database, Requested[i]) =>
                i <= Len(badgesOut) /\ badgesOut[i].badges = <<>>
    /\ lastOp = "report" =>
        \A i \in 1..Len(Requested) :
            ~HasKey(database, Requested[i]) =>
                i <= Len(reportOut) /\ reportOut[i] = <<HeaderRow>>

-----------------------------------------------------------------------------
(* Properties of init() *)

\* the last operation was init() and its branch/author check passed
CheckPassed == lastOp = "init" /\ gitCheck[1] /\ gitCheck[2]

CheckFailed == lastOp = "init" /\ ~(gitCheck[1] /\ gitCheck[2])

\* the last init() went through page generation
Generated == lastOp = "init" /\ config.generate_test_reports

SourcePages == SelectSeq(pagesAdded, LAMBDA pg : pg.type = "Source")

DirectoryPages == SelectSeq(pagesAdded, LAMBDA pg : pg.type = "Directory")

\* the names result_0 .. result_{N-1} go to the store's keys in iteration
\* order, on the pages and in the name table
NamesInStoreOrder ==
    /\ Len(SourcePages) = Len(database) + 1
    /\ SourcePages[1] = [type |-> "Source", name |-> "civet/index.md", key |-> None]
    /\ \A i \in 1..Len(database) :
        /\ SourcePages[i + 1].key = Some(database[i].k)
        /\ SourcePages[i + 1].name = "civet/result_" \o ToString(i - 1) \o ".md"
        /\ testBaseFileName(database[i].k) = Some("result_" \o ToString(i - 1))
    /\ \A i, j \in 1..Len(database) :
        testBaseFileName(database[i].k) = testBaseFileName(database[j].k) => i = j

\* C3 as stated: page generation creates exactly N+1 pages
C3_ExactlyNPlusOnePages ==
    Generated => Len(pagesAdded) = Len(database) + 1 /\ NamesInStoreOrder

\* C3 amended: page generation creates N+1 source pages (the index, then
\* result_0 .. result_{N-1} in store iteration order, each resolvable by
\* testBaseFileName and unique among the store's keys), and before them one
\* directory page for the report root exactly when findPage found none.
C3_SourcePagesAndRoot ==
    Generated =>
        /\ NamesInStoreOrder
        /\ pagesAdded = DirectoryPages \o SourcePages
        /\ Len(DirectoryPages) = IF rootFound THEN 0 ELSE 1
        /\ \A i \in 1..Len(DirectoryPages) : DirectoryPages[i].name = "civet"

\* C3 witness: a store of two keys, generated while the report root had no page
C3_Witness ==
    Generated /\ Len(database) = 2 /\ ~rootFound /\ Len(pagesAdded) = 4

\* C4: every key of the page-name table is a key of the current store
C4_NoOrphanedNames ==
    \A key \in StoreKeys :
        testBaseFileName(key) # None => results(key) # None

\* C5: a failed branch/author check means no hash lookup and no fetch, an
\* empty store, generate_test_reports False and no page created.
C5_CheckFailedDisables ==
    CheckFailed =>
        /\ calls = <<>>
        /\ database = <<>>
        /\ \A name \in StoreKeys : results(name) = None
        /\ ~config.generate_test_reports
        /\ pagesAdded = <<>>

\* C5 witness: the check fails on an instance with remotes whose earlier
\* build generated reports
C5_Witness ==
    CheckFailed /\ Len(config.remotes) > 0 /\ has_test_reports

\* no category downloads: the extension option is False and no category sets True
FetchDisabled ==
    /\ ~config.download_test_results
    /\ \A i \in 1..Len(config.remotes) : config.remotes[i].download # Some(TRUE)

\* C6 as stated: with fetching disabled the store stays empty and no report
\* is generated
C6_DisabledMeansEmpty ==
    (lastOp = "init" /\ FetchDisabled) =>
        /\ database = <<>>
        /\ ~config.generate_test_reports
        /\ pagesAdded = <<>>
        /\ ~hasTestReports

\* C6 amended: with fetching disabled init() makes no hash lookup and every
\* fetch has hashes=None; the store stays empty and report generation is off
\* (option False, no page created, hasTestReports() False on a first init())
\* when the check fails or every category's cache yields nothing; otherwise
\* the store holds the cached results.
C6_DisabledUsesCacheOnly ==
    (lastOp = "init" /\ FetchDisabled) =>
        /\ \A c \in 1..Len(calls) :
            calls[c].fn = "get_civet_results" /\ calls[c].hashes = None
        /\ IF CheckFailed \/ \A i \in 1..Len(fetched) : fetched[i] = <<>>
           THEN /\ database = <<>>
                /\ ~config.generate_test_reports
                /\ pagesAdded = <<>>
                /\ inits = 1 => ~hasTestReports
           ELSE /\ database # <<>>
                /\ Keys(database) = UNION {Keys(fetched[i]) : i \in 1..Len(fetched)}

\* C6 witness: fetching is disabled and the store holds cached results
C6_Witness ==
    lastOp = "init" /\ FetchDisabled /\ database # <<>> /\ hasTestReports

\* category i does not download
Disabled(i) ==
    \/ config.remotes[i].download = Some(FALSE)
    \/ config.remotes[i].download = None /\ ~config.download_test_results

\* the cache path of category i
CachePathOf(i) ==
    IF config.remotes[i].cache = None THEN config.test_results_cache
    ELSE config.remotes[i].cache[1]

\* C7: for a category that does not download, no hash lookup is made, one
\* fetch is made with hashes=None and the category's cache path, and what it
\* returns is in the store (unless a later category returns the same key).
C7_NoDownloadStillFetches ==
    CheckPassed =>
        \A i \in 1..Len(config.remotes) :
            Disabled(i) =>
                /\ \A c \in 1..Len(calls) :
                    calls[c].category = i => calls[c].fn # "git_civet_hashes"
                /\ Cardinality({c \in 1..Len(calls) : calls[c].category = i}) = 1
                /\ \A c \in 1..Len(calls) :
                    calls[c].category = i =>
                        /\ calls[c].fn = "get_civet_results"
                        /\ calls[c].hashes = None
                        /\ calls[c].local = CachePathOf(i)
                /\ \A e \in 1..Len(fetched[i]) :
                    /\ HasKey(database, fetched[i][e].k)
                    /\ (\A j \in i + 1..Len(fetched) : ~HasKey(fetched[j], fetched[i][e].k))
                        => Lookup(database, fetched[i][e].k) = fetched[i][e].v

\* C7 witness: a category with its own cache path does not download and its
\* cached results reach the store
C7_Witness ==
    /\ CheckPassed
    /\ \E i \in 1..Len(config.remotes) :
        /\ Disabled(i)
        /\ config.remotes[i].cache # None
        /\ fetched[i] # <<>>
        /\ \E j \in 1..Len(config.remotes) : ~Disabled(j)

\* the last category that returned the key
LastWith(key) ==
    CHOOSE i \in 1..Len(fetched) :
        /\ HasKey(fetched[i], key)
        /\ \A j \in i + 1..Len(fetched) : ~HasKey(fetched[j], key)

\* C9: the store's keys are the union of the categories' keys, and each key
\* holds the value the last category returning it gave.
C9_RightBiasedMerge ==
    CheckPassed =>
        /\ Len(fetched) = Len(config.remotes)
        /\ Keys(database) = UNION {Keys(fetched[i]) : i \in 1..Len(fetched)}
        /\ \A key \in Keys(database) :
            results(key) = Some(Lookup(fetched[LastWith(key)], key))

\* C9 witness: two categories return the same key with different values
C9_Witness ==
    /\ CheckPassed
    /\ \E i, j \in 1..Len(fetched) :
        /\ i < j
        /\ \E key \in Keys(fetched[i]) \cap Keys(fetched[j]) :
            Lookup(fetched[i], key) # Lookup(fetched[j], key)

=============================================================================
